---- MODULE Spec2Model ----
(***************************************************************************)
(* The filename decoder and the directory reorganizer of                   *)
(* lib/video_filename_parser.py.                                           *)
(*                                                                         *)
(* A Python str is a sequence of one-character strings, so that rsplit,    *)
(* split, strip, lower, endswith and os.path.join are computed character   *)
(* by character, as the interpreter computes them.  "NUL" stands for the   *)
(* character chr(0).                                                       *)
(***************************************************************************)
EXTENDS Naturals, Sequences, FiniteSets, TLC

EMOTION_DICT ==
  << << <<"A">>, <<"A","n","g","e","r">> >>,
     << <<"D">>, <<"D","i","s","g","u","s","t">> >>,
     << <<"F">>, <<"F","e","a","r">> >>,
     << <<"H">>, <<"H","a","p","p","y">> >>,
     << <<"H","a">>, <<"H","a","p","p","y">> >>,
     << <<"N">>, <<"N","e","u","t","r","a","l">> >>,
     << <<"S">>, <<"S","a","d">> >> >>

LANGUAGE_DICT ==
  << << <<"E","N">>, <<"E","n","g","l","i","s","h">> >>,
     << <<"H","I">>, <<"H","i","n","d","i">> >> >>

SPEAKER_NAME_DICT ==
  << << <<"A","1">>, <<"S","p","e","a","k","e","r"," ","O","n","e">> >>,
     << <<"A","2">>, <<"S","p","e","a","k","e","r"," ","T","w","o">> >>,
     << <<"A","3">>, <<"S","p","e","a","k","e","r"," ","T","h","r","e","e">> >>,
     << <<"A","4">>, <<"S","p","e","a","k","e","r"," ","F","o","u","r">> >>,
     << <<"A","5">>, <<"S","p","e","a","k","e","r"," ","F","i","v","e">> >>,
     << <<"A","6">>, <<"S","p","e","a","k","e","r"," ","S","i","x">> >>,
     << <<"A","7">>, <<"S","p","e","a","k","e","r"," ","S","e","v","e","n">> >>,
     << <<"A","8">>, <<"S","p","e","a","k","e","r"," ","E","i","g","h","t">> >>,
     << <<"A","9">>, <<"S","p","e","a","k","e","r"," ","N","i","n","e">> >>,
     << <<"A","1","0">>, <<"S","p","e","a","k","e","r"," ","T","e","n">> >>,
     << <<"A","1","1">>, <<"S","p","e","a","k","e","r"," ","E","l","e","v","e","n">> >>,
     << <<"A","1","2">>, <<"S","p","e","a","k","e","r"," ","T","w","e","l","v","e">> >>,
     << <<"A","1","3">>, <<"S","p","e","a","k","e","r"," ","T","h","i","r","t","e","e","n">> >>,
     << <<"A","1","4">>, <<"S","p","e","a","k","e","r"," ","F","o","u","r","t","e","e","n">> >>,
     << <<"A","1","5">>, <<"S","p","e","a","k","e","r"," ","F","i","f","t","e","e","n">> >>,
     << <<"A","1","6">>, <<"S","p","e","a","k","e","r"," ","S","i","x","t","e","e","n">> >>,
     << <<"A","1","7">>, <<"S","p","e","a","k","e","r"," ","S","e","v","e","n","t","e","e","n">> >>,
     << <<"A","1","8">>, <<"S","p","e","a","k","e","r"," ","E","i","g","h","t","e","e","n">> >>,
     << <<"A","1","9">>, <<"S","p","e","a","k","e","r"," ","N","i","n","e","t","e","e","n">> >>,
     << <<"A","2","0">>, <<"S","p","e","a","k","e","r"," ","T","w","e","n","t","y">> >>,
     << <<"A","2","1">>, <<"S","p","e","a","k","e","r"," ","T","w","e","n","t","y"," ","O","n","e">> >>,
     << <<"A","2","2">>, <<"S","p","e","a","k","e","r"," ","T","w","e","n","t","y"," ","T","w","o">> >>,
     << <<"A","2","3">>, <<"S","p","e","a","k","e","r"," ","T","w","e","n","t","y"," ","T","h","r","e","e">> >>,
     << <<"A","2","4">>, <<"S","p","e","a","k","e","r"," ","T","w","e","n","t","y"," ","F","o","u","r">> >>,
     << <<"A","2","5">>, <<"S","p","e","a","k","e","r"," ","T","w","e","n","t","y"," ","F","i","v","e">> >> >>

SENTENCE_DICT ==
  << << <<"S","1">>, <<"C","a","n","'","t"," ","y","o","u"," ","h","e","a","r"," ","m","y"," ","v","o","i","c","e","?">> >>,
     << <<"S","2">>, <<"I"," ","t","r","i","e","d"," ","t","o"," ","r","e","s","o","l","v","e"," ","t","h","i","s"," ","i","s","s","u","e"," ","f","r","o","m"," ","m","y"," ","e","n","d",".">> >>,
     << <<"S","3">>, <<"M","y"," ","e","l","e","c","t","r","i","c","i","t","y"," ","b","i","l","l"," ","i","s"," ","n","o","t"," ","y","e","t"," ","u","p","d","a","t","e","d",".">> >>,
     << <<"S","4">>, <<"H","o","w"," ","m","u","c","h"," ","t","i","m","e"," ","i","s"," ","n","e","e","d","e","d"," ","t","o"," ","u","p","d","a","t","e"," ","m","y"," ","a","c","c","o","u","n","t"," ","d","e","t","a","i","l","s","?">> >>,
     << <<"S","5">>, <<"I"," ","n","o"," ","l","o","n","g","e","r"," ","w","a","n","t"," ","t","o"," ","u","s","e"," ","y","o","u","r"," ","s","e","r","v","i","c","e","s",".">> >>,
     << <<"S","6">>, <<"N","o",","," ","I"," ","h","a","v","e","n","'","t"," ","r","e","c","e","i","v","e","d"," ","a","n","y"," ","u","p","d","a","t","e","s",".">> >>,
     << <<"S","7">>, <<"N","o",","," ","t","h","a","t","'","s"," ","f","i","n","e",".">> >>,
     << <<"S","8">>, <<"O","k","a","y",","," ","b","u","t"," ","m","a","k","e"," ","i","t"," ","q","u","i","c","k",".">> >>,
     << <<"S","9">>, <<"I"," ","a","m"," ","b","u","s","y","."," ","Y","o","u"," ","c","a","n"," ","c","a","l","l"," ","m","e"," ","l","a","t","e","r",".">> >>,
     << <<"S","1","0">>, <<"Y","e","s",","," ","w","h","o"," ","i","s"," ","c","a","l","l","i","n","g","?">> >>,
     << <<"S","1","1">>, <<"I"," ","h","o","p","e"," ","i","t"," ","w","i","l","l"," ","w","o","r","k"," ","f","i","n","e"," ","n","o","w">> >>,
     << <<"S","1","2">>, <<"O","k","a","y",","," ","w","h","a","t"," ","d","o"," ","I"," ","h","a","v","e"," ","t","o"," ","d","o","?">> >>,
     << <<"S","1","3">>, <<"F","i","n","e",","," ","s","e","n","d"," ","y","o","u","r"," ","e","x","e","c","u","t","i","v","e"," ","a","t"," ","1","0",":","0","0"," ","a",".","m","."," ","t","o","m","o","r","r","o","w",".">> >>,
     << <<"S","1","4">>, <<"I"," ","g","o","t"," ","t","h","e"," ","w","r","o","n","g"," ","e","l","e","c","t","r","i","c","i","t","y"," ","b","i","l","l",".">> >>,
     << <<"S","1","5">>, <<"O","k","a","y",","," ","I"," ","h","a","v","e"," ","a","l","l"," ","t","h","e","s","e"," ","t","h","i","n","g","s"," ","r","e","a","d","y",".">> >>,
     << <<"S","1","6">>, <<"I"," ","h","a","v","e"," ","b","e","e","n"," ","w","a","i","t","i","n","g"," ","l","o","n","g"," ","t","o"," ","c","o","n","n","e","c","t",".">> >>,
     << <<"S","1","7">>, <<"C","a","n"," ","y","o","u"," ","f","i","x"," ","i","t"," ","f","a","s","t","?">> >>,
     << <<"S","1","8">>, <<"W","e","l","l",","," ","c","a","n"," ","y","o","u"," ","h","e","l","p"," ","m","e","?">> >> >>

Gender ==
  << << <<"M">>,
        << <<"A","1">>, <<"A","2">>, <<"A","5">>, <<"A","8">>, <<"A","9">>, <<"A","1","1">>, <<"A","1","2">>, <<"A","1","4">>, <<"A","1","5">>, <<"A","1","6">>, <<"A","2","0">>, <<"A","2","2">>, <<"A","2","3">> >> >>,
     << <<"F">>,
        << <<"A","3">>, <<"A","4">>, <<"A","6">>, <<"A","7">>, <<"A","1","0">>, <<"A","1","3">>, <<"A","1","7">>, <<"A","1","8">>, <<"A","1","9">>, <<"A","2","1">>, <<"A","2","4">>, <<"A","2","5">> >> >> >>

(***************************************************************************)
(* The str and dict methods the module uses.                               *)
(***************************************************************************)

\* c in s, for a one-character c
contains(s, c) == \E i \in 1..Len(s) : s[i] = c

\* x in xs, for a list xs
member(xs, x) == \E i \in 1..Len(xs) : xs[i] = x

find(s, c) == CHOOSE i \in 1..Len(s) : s[i] = c /\ \A j \in 1..(i - 1) : s[j] # c

rfind(s, c) == CHOOSE i \in 1..Len(s) : s[i] = c /\ \A j \in (i + 1)..Len(s) : s[j] # c

\* rsplit1_head with the split forgotten: the extension stays on the name
rsplit1_head_kept(s, c) == s

\* s.rsplit(c, 1)[0]
rsplit1_head(s, c) == IF contains(s, c) THEN SubSeq(s, 1, rfind(s, c) - 1) ELSE s

\* s.split(c)
RECURSIVE split(_, _)
split(s, c) ==
  IF ~contains(s, c) THEN << s >>
  ELSE << SubSeq(s, 1, find(s, c) - 1) >> \o split(SubSeq(s, find(s, c) + 1, Len(s)), c)

Whitespace == {" ", "\t", "\n", "\r", "\f"}

\* s.strip()
strip(s) ==
  LET keep == {i \in 1..Len(s) : s[i] \notin Whitespace}
  IN  IF keep = {} THEN << >>
      ELSE SubSeq(s, CHOOSE i \in keep : \A j \in keep : i <= j,
                     CHOOSE i \in keep : \A j \in keep : j <= i)

Upper == <<"A","B","C","D","E","F","G","H","I","J","K","L","M",
           "N","O","P","Q","R","S","T","U","V","W","X","Y","Z">>
Lower == <<"a","b","c","d","e","f","g","h","i","j","k","l","m",
           "n","o","p","q","r","s","t","u","v","w","x","y","z">>

\* the lower-case letter of each upper-case letter
LowerOf == [c \in {Upper[k] : k \in 1..Len(Upper)} |->
              Lower[CHOOSE k \in 1..Len(Upper) : Upper[k] = c]]

\* s.lower()
lower(s) == [i \in 1..Len(s) |-> IF s[i] \in DOMAIN LowerOf THEN LowerOf[s[i]] ELSE s[i]]

\* s.endswith(suffix)
endswith(s, suffix) ==
  /\ Len(suffix) <= Len(s)
  /\ SubSeq(s, Len(s) - Len(suffix) + 1, Len(s)) = suffix

\* dict_get as d.get(key): None, here the empty string, for a missing key
dict_get_none(d, key, default) ==
  IF \E i \in 1..Len(d) : d[i][1] = key
  THEN d[CHOOSE i \in 1..Len(d) : d[i][1] = key][2]
  ELSE << >>

\* d.get(key, default), d a dict literal kept as its list of items
dict_get(d, key, default) ==
  IF \E i \in 1..Len(d) : d[i][1] = key
  THEN d[CHOOSE i \in 1..Len(d) : d[i][1] = key][2]
  ELSE default

\* the keys of a dict literal
keys(d) == {d[i][1] : i \in 1..Len(d)}

(***************************************************************************)
(* parse_video_filename and get_gender.                                    *)
(***************************************************************************)

UnknownRecord ==
  [speaker       |-> <<"u","n","k","n","o","w","n">>,
   speaker_name  |-> <<"U","n","k","n","o","w","n"," ","S","p","e","a","k","e","r">>,
   gender        |-> <<"U","n","k","n","o","w","n">>,
   language      |-> <<"u","n","k","n","o","w","n">>,
   language_full |-> <<"U","n","k","n","o","w","n"," ","L","a","n","g","u","a","g","e">>,
   emotion       |-> <<"u","n","k","n","o","w","n">>,
   emotion_full  |-> <<"U","n","k","n","o","w","n"," ","E","m","o","t","i","o","n">>,
   detail        |-> <<"u","n","k","n","o","w","n">>,
   sentence      |-> <<"U","n","k","n","o","w","n"," ","s","e","n","t","e","n","c","e">>]

\* base.split("_") of line 110, on the base name of line 108
filename_parts(filename) == split(rsplit1_head(filename, "."), "_")

\* gender_scan with the break outside the if: only the first group is looked at
gender_scan_first_group(speaker) ==
  IF member(Gender[1][2], speaker) THEN Gender[1][1] ELSE <<"U","n","k","n","o","w","n">>

\* the for loop of lines 135-139: the first group of Gender that lists the speaker
gender_scan(speaker) ==
  LET hits == {i \in 1..Len(Gender) : member(Gender[i][2], speaker)}
  IN  IF hits = {} THEN <<"U","n","k","n","o","w","n">>
      ELSE Gender[CHOOSE i \in hits : \A j \in hits : i <= j][1]

\* parse_video_filename testing len(parts) < 4: further fields are ignored
parse_video_filename_lt4(filename) ==
  LET parts == filename_parts(filename)
  IN  IF Len(parts) < 4
      THEN [ret |-> UnknownRecord, warned |-> 1]
      ELSE LET speaker      == strip(parts[1])
               language     == strip(parts[2])
               emotion_code == strip(parts[3])
               detail       == strip(parts[4])
           IN  [ret |->
                  [speaker       |-> speaker,
                   speaker_name  |-> dict_get(SPEAKER_NAME_DICT, speaker, speaker),
                   gender        |-> gender_scan(speaker),
                   language      |-> language,
                   language_full |-> dict_get(LANGUAGE_DICT, language, language),
                   emotion       |-> emotion_code,
                   emotion_full  |-> dict_get(EMOTION_DICT, emotion_code, emotion_code),
                   detail        |-> detail,
                   sentence      |-> dict_get(SENTENCE_DICT, detail, detail)],
                warned |-> 0]

\* The value returned, with the number of logger.warning calls made.
parse_video_filename(filename) ==
  LET parts == filename_parts(filename)
  IN  IF Len(parts) # 4
      THEN [ret |-> UnknownRecord, warned |-> 1]
      ELSE LET speaker      == strip(parts[1])
               language     == strip(parts[2])
               emotion_code == strip(parts[3])
               detail       == strip(parts[4])
           IN  [ret |->
                  [speaker       |-> speaker,
                   speaker_name  |-> dict_get(SPEAKER_NAME_DICT, speaker, speaker),
                   gender        |-> gender_scan(speaker),
                   language      |-> language,
                   language_full |-> dict_get(LANGUAGE_DICT, language, language),
                   emotion       |-> emotion_code,
                   emotion_full  |-> dict_get(EMOTION_DICT, emotion_code, emotion_code),
                   detail        |-> detail,
                   sentence      |-> dict_get(SENTENCE_DICT, detail, detail)],
                warned |-> 0]

\* get_gender falling back to "Unknown" as the parser does
get_gender_lenient(speaker) ==
  LET hits == {i \in 1..Len(Gender) : member(Gender[i][2], speaker)}
  IN  IF hits # {}
      THEN [exc |-> "none", value |-> Gender[CHOOSE i \in hits : \A j \in hits : i <= j][1]]
      ELSE [exc |-> "none", value |-> <<"U","n","k","n","o","w","n">>]

\* The label returned, or the exception raised.
get_gender(speaker) ==
  LET hits == {i \in 1..Len(Gender) : member(Gender[i][2], speaker)}
  IN  IF hits # {}
      THEN [exc |-> "none", value |-> Gender[CHOOSE i \in hits : \A j \in hits : i <= j][1]]
      ELSE [exc |-> "ValueError", value |-> << >>]

(***************************************************************************)
(* Paths and the filesystem calls of convert_structure.  A location in the *)
(* filesystem is the tuple of the directory names leading to it from the   *)
(* working directory; the paths handled are relative ones.                 *)
(***************************************************************************)

\* os.path.join(a, b)
join2(a, b) ==
  IF Len(b) > 0 /\ b[1] = "/" THEN b
  ELSE IF Len(a) = 0 \/ a[Len(a)] = "/" THEN a \o b
  ELSE a \o <<"/">> \o b

\* os.path.join(a, *p)
RECURSIVE path_join(_, _)
path_join(a, p) == IF p = << >> THEN a ELSE path_join(join2(a, Head(p)), Tail(p))

\* The names between the slashes of a path, the empty ones dropped.
components(path) == SelectSeq(split(path, "/"), LAMBDA c : c # << >>)

\* The location a tuple of names leads to: "." stays, ".." goes up.
RECURSIVE resolve(_, _)
resolve(names, at) ==
  IF names = << >> THEN at
  ELSE IF Head(names) = <<".">> THEN resolve(Tail(names), at)
  ELSE IF Head(names) = <<".",".">> /\ at # << >> /\ at[Len(at)] # <<".",".">>
       THEN resolve(Tail(names), SubSeq(at, 1, Len(at) - 1))
  ELSE resolve(Tail(names), Append(at, Head(names)))

location(path) == resolve(components(path), << >>)

\* The path that names a location.
RECURSIVE to_path(_)
to_path(loc) ==
  IF loc = << >> THEN <<".">>
  ELSE IF Len(loc) = 1 THEN loc[1]
  ELSE to_path(SubSeq(loc, 1, Len(loc) - 1)) \o <<"/">> \o loc[Len(loc)]

\* A directory that is there without having been made: the working
\* directory and the ones above it.
is_above(loc) == \A i \in 1..Len(loc) : loc[i] = <<".",".">>

\* makedirs without exist_ok=True: a directory that is already there is an error
makedirs_not_exist_ok(name, dirs, files, denied) ==
  LET names  == components(name)
      at(k)  == resolve(SubSeq(names, 1, k), << >>)
      isdir(k) == at(k) \in dirs \/ is_above(at(k))
      why(k) == IF contains(names[k], "NUL") THEN "ValueError"
                ELSE IF at(k) \in DOMAIN files THEN "OSError"
                ELSE IF denied /\ ~isdir(k) THEN "OSError"
                ELSE IF k = Len(names) /\ isdir(k) THEN "OSError"
                ELSE "none"
      stops  == {k \in 1..Len(names) : why(k) # "none"}
      stop   == IF stops = {} THEN Len(names) + 1
                ELSE CHOOSE k \in stops : \A j \in stops : k <= j
  IN  [exc  |-> IF stops = {} THEN "none" ELSE why(stop),
       dirs |-> dirs \cup {at(k) : k \in 1..(stop - 1)}]

\* os.makedirs(name, exist_ok=True) on the directories dirs and the files
\* files; denied: the filesystem refuses to make a new directory.  It makes
\* the missing directories from the top down and stops at the first it
\* cannot make.
makedirs(name, dirs, files, denied) ==
  LET names  == components(name)
      at(k)  == resolve(SubSeq(names, 1, k), << >>)
      isdir(k) == at(k) \in dirs \/ is_above(at(k))
      why(k) == IF contains(names[k], "NUL") THEN "ValueError"
                ELSE IF at(k) \in DOMAIN files THEN "OSError"
                ELSE IF denied /\ ~isdir(k) THEN "OSError"
                ELSE "none"
      stops  == {k \in 1..Len(names) : why(k) # "none"}
      stop   == IF stops = {} THEN Len(names) + 1
                ELSE CHOOSE k \in stops : \A j \in stops : k <= j
  IN  [exc  |-> IF stops = {} THEN "none" ELSE why(stop),
       dirs |-> dirs \cup {at(k) : k \in 1..(stop - 1)}]

\* shutil.copy2(src, dst); denied: the filesystem refuses the read or the write.
copy2(src, dst, files, denied) ==
  IF contains(dst, "NUL") THEN [exc |-> "ValueError", files |-> files]
  ELSE IF denied \/ location(src) = location(dst)
       THEN [exc |-> "OSError", files |-> files]
  ELSE [exc |-> "none", files |-> (location(dst) :> files[location(src)]) @@ files]

\* is_video without lower()
is_video_case_sensitive(file) ==
  \E ext \in {<<".","m","p","4">>, <<".","a","v","i">>, <<".","m","o","v">>} : endswith(file, ext)

\* file.lower().endswith((".mp4", ".avi", ".mov"))
is_video(file) ==
  LET lowered == lower(file)
  IN  \E ext \in {<<".","m","p","4">>, <<".","a","v","i">>, <<".","m","o","v">>} : endswith(lowered, ext)

\* try_body naming the copy after the sentence code, not after the file
try_body_by_detail(root, file, dst_dir, dirs, files, fault) ==
  LET src_file    == join2(root, file)
      parsed      == parse_video_filename(file)
      details     == parsed.ret
      target_dir  == path_join(dst_dir, << details.language, details.gender,
                                           details.emotion, details.detail >>)
      made        == makedirs(target_dir, dirs, files, fault = "makedirs")
      target_file == join2(target_dir, details.detail \o <<".","m","p","4">>)
      copied      == copy2(src_file, target_file, files, fault = "copy2")
  IN  [exc         |-> IF made.exc # "none" THEN made.exc ELSE copied.exc,
       dirs        |-> made.dirs,
       files       |-> IF made.exc # "none" THEN files ELSE copied.files,
       target_file |-> target_file,
       details     |-> details,
       warned      |-> parsed.warned]

\* The body of the try statement, lines 178-192, for the file named file in
\* the directory root; fault names the call the filesystem refuses, if any.
try_body(root, file, dst_dir, dirs, files, fault) ==
  LET src_file    == join2(root, file)
      parsed      == parse_video_filename(file)
      details     == parsed.ret
      target_dir  == path_join(dst_dir, << details.language, details.gender,
                                           details.emotion, details.detail >>)
      made        == makedirs(target_dir, dirs, files, fault = "makedirs")
      target_file == join2(target_dir, file)
      copied      == copy2(src_file, target_file, files, fault = "copy2")
  IN  [exc         |-> IF made.exc # "none" THEN made.exc ELSE copied.exc,
       dirs        |-> made.dirs,
       files       |-> IF made.exc # "none" THEN files ELSE copied.files,
       target_file |-> target_file,
       details     |-> details,
       warned      |-> parsed.warned]

\* except (ValueError, KeyError)
is_caught(exc) == exc \in {"ValueError", "KeyError"}

(***************************************************************************)
(* State.                                                                  *)
(***************************************************************************)
VARIABLES
  pc,            \* where the caller is
  filename,      \* the argument of parse_video_filename
  details,       \* << the record it returned >>, empty before the call
  warnings,      \* logger.warning calls made so far
  gender_arg,    \* the argument of get_gender
  gender_out,    \* << what get_gender did >>, empty before the call
  src_files,     \* the files under src_dir when first called, as os.walk lists them
  dst_dir,       \* the dst_dir argument
  fault,         \* the call the filesystem refuses, and for which file
  run,           \* 1 in the first call of convert_structure, 2 in the second
  walk,          \* the files os.walk yields in this call, in its order
  visited,       \* what the loop body did with each file it took in this call
  success_count,
  error_count,
  fs_dirs,       \* the directories of the filesystem
  fs_files,      \* the files of the filesystem, each with the file it is a copy of
  returns        \* what each finished call returned and left on the filesystem

walk_vars == << src_files, dst_dir, fault, run, walk, visited, success_count,
                error_count, fs_dirs, fs_files, returns >>

vars == << pc, filename, details, warnings, gender_arg, gender_out, walk_vars >>

NoFault == [file |-> << >>, call |-> "none"]
(***************************************************************************)
(* The filenames handed to the decoder: four fields, one of them drawn     *)
(* from every key of its table and from odd codes, the others from a few   *)
(* codes; malformed names have fewer fields or up to MaxParts of them.     *)
(***************************************************************************)
MaxParts == 5

OddFields == << {<<"Z","9","9">>, <<"Z","1">>, << >>, <<" ","A","3","\t">>, <<"M">>, <<"a","1">>, <<"u","n","k","n","o","w","n">>},
                {<<"X","X">>, << >>, <<" ">>, <<".",".">>, <<".">>, <<" ","E","N">>},
                {<<"Q">>, << >>, <<"h">>, <<".",".">>, <<"H","a"," ">>},
                {<<"S","9","9">>, << >>, <<".",".">>, <<"S","1",".","x">>, <<"\t","S","1","8"," ">>} >>

SomeFields == << {<<"A","1">>, <<"A","3">>, <<"Z","9","9">>},
                 {<<"E","N">>, << >>, <<".",".">>},
                 {<<"H">>, <<" ","S"," ">>},
                 {<<"S","1">>, <<"S","9","9">>, << >>} >>

Tables == << SPEAKER_NAME_DICT, LANGUAGE_DICT, EMOTION_DICT, SENTENCE_DICT >>

AllFields == [p \in 1..4 |-> keys(Tables[p]) \cup OddFields[p] \cup SomeFields[p]]

SomeTuples == SomeFields[1] \X SomeFields[2] \X SomeFields[3] \X SomeFields[4]

FourFields ==
  UNION {{[t EXCEPT ![p] = x] : x \in AllFields[p], t \in SomeTuples} : p \in 1..4}

ExtraFields == {<<"e","x","t","r","a">>, << >>}

FieldLists ==
  FourFields
    \cup {SubSeq(t, 1, n) : t \in SomeTuples, n \in 1..3}
    \cup UNION {{t \o e : t \in SomeTuples, e \in [1..n -> ExtraFields]} : n \in 1..(MaxParts - 4)}

Extensions == {<<".","m","p","4">>, << >>, <<".","M","O","V">>}

\* "_".join(fields)
RECURSIVE join_fields(_)
join_fields(fields) ==
  IF Len(fields) = 1 THEN fields[1]
  ELSE fields[1] \o <<"_">> \o join_fields(Tail(fields))

Filenames == {join_fields(f) \o e : f \in FieldLists, e \in Extensions}

InitDecode ==
  /\ pc = "start"
  /\ filename \in Filenames
  /\ details = << >>
  /\ warnings = 0
  /\ gender_arg = << >>
  /\ gender_out = << >>
  /\ src_files = << >> /\ dst_dir = << >> /\ fault = NoFault
  /\ run = 0 /\ walk = << >> /\ visited = << >>
  /\ success_count = 0 /\ error_count = 0
  /\ fs_dirs = {} /\ fs_files = << >>
  /\ returns = << >>

\* details = parse_video_filename(filename)
ParseCall ==
  /\ pc = "start"
  /\ details' = << parse_video_filename(filename).ret >>
  /\ warnings' = warnings + parse_video_filename(filename).warned
  /\ pc' = "parsed"
  /\ UNCHANGED << filename, gender_arg, gender_out, walk_vars >>

\* get_gender(speaker), on the decoded speaker code or on the raw first field
GetGenderCall ==
  /\ pc = "parsed"
  /\ \E speaker \in {details[1].speaker, filename_parts(filename)[1]} :
       /\ gender_arg' = speaker
       /\ gender_out' = << get_gender(speaker) >>
  /\ pc' = "looked"
  /\ UNCHANGED << filename, details, warnings, walk_vars >>

NextDecode == ParseCall \/ GetGenderCall

SpecDecode == InitDecode /\ [][NextDecode]_vars


(***************************************************************************)
(* convert_structure(src_dir, dst_dir), called twice on the same           *)
(* arguments.  src_dir is "src"; its files lie in src itself and in        *)
(* src/videos.                                                             *)
(***************************************************************************)
MaxFiles == 2

src_dir == <<"s","r","c">>

WalkNames ==
  {<<"A","1","_","E","N","_","H","_","S","1",".","m","p","4">>, <<"A","1","_","E","N","_","H","_","S","1",".","M","O","V">>, <<"n","o","t","e","s",".","t","x","t">>, <<"A","1","_","E","N",".","a","v","i">>,
   <<"A","1","_",".",".","_","H","_","S","1",".","m","p","4">>, <<" ","Z","9","_"," ","_","H","_",".","m","p","4">>}

SrcDirs == << << <<"s","r","c">> >>, << <<"s","r","c">>, <<"v","i","d","e","o","s">> >> >>

SrcPaths == {Append(SrcDirs[d], n) : d \in 1..Len(SrcDirs), n \in WalkNames}

DstDirs == {<<"d","s","t">>, <<"s","r","c","/","o","u","t">>, <<"d","NUL","s","t">>}

\* the tuples that list every element of S once
Orders(S) ==
  {o \in [1..Cardinality(S) -> S] : \A i, j \in 1..Cardinality(S) : o[i] = o[j] => i = j}

in_top(p) == Len(p) = Len(SrcDirs[1]) + 1

\* os.walk is top-down: the files of src_dir itself come first.
Trees ==
  {t \in UNION {[1..n -> SrcPaths] : n \in 0..MaxFiles} :
     /\ \A i, j \in 1..Len(t) : t[i] = t[j] => i = j
     /\ \A i, j \in 1..Len(t) : (i < j /\ in_top(t[j])) => in_top(t[i])}

Faults(t) ==
  {NoFault} \cup {[file |-> t[i], call |-> c] : i \in 1..Len(t), c \in {"makedirs", "copy2"}}

Init ==
  /\ pc = "walking"
  /\ filename = << >> /\ details = << >> /\ warnings = 0
  /\ gender_arg = << >> /\ gender_out = << >>
  /\ src_files \in Trees
  /\ dst_dir \in DstDirs
  /\ fault \in Faults(src_files)
  /\ run = 1
  /\ walk = src_files
  /\ visited = << >>
  /\ success_count = 0
  /\ error_count = 0
  /\ fs_dirs = {<< >>} \cup {SrcDirs[d] : d \in 1..Len(SrcDirs)}
  /\ fs_files = [p \in {src_files[i] : i \in 1..Len(src_files)} |-> p]
  /\ returns = << >>

\* the file the loop is about to take
cur == walk[Len(visited) + 1]
cur_file == cur[Len(cur)]
cur_root == to_path(SubSeq(cur, 1, Len(cur) - 1))
cur_fault == IF fault.file = cur THEN fault.call ELSE "none"
cur_try == try_body(cur_root, cur_file, dst_dir, fs_dirs, fs_files, cur_fault)

in_loop == pc = "walking" /\ Len(visited) < Len(walk)

unchanged_in_loop ==
  UNCHANGED << filename, details, gender_arg, gender_out,
               src_files, dst_dir, fault, run, walk, returns >>

\* lines 173-174: not a video, continue
Skip ==
  /\ in_loop
  /\ ~is_video(cur_file)
  /\ visited' = Append(visited, [file |-> cur, outcome |-> "skipped", exc |-> "none",
                                  target_file |-> << >>])
  /\ UNCHANGED << pc, warnings, success_count, error_count, fs_dirs, fs_files >>
  /\ unchanged_in_loop

\* lines 176-192: the try body runs to its end
Copy ==
  /\ in_loop
  /\ is_video(cur_file)
  /\ \E try \in {cur_try} :
     /\ try.exc = "none"
     /\ visited' = Append(visited, [file |-> cur, outcome |-> "copied", exc |-> "none",
                                     target_file |-> try.target_file])
     /\ warnings' = warnings + try.warned
     /\ fs_dirs' = try.dirs
     /\ fs_files' = try.files
     /\ success_count' = success_count + 1
     /\ UNCHANGED << pc, error_count >>
     /\ unchanged_in_loop

\* lines 194-196: the try body raises an exception the except clause names
Caught ==
  /\ in_loop
  /\ is_video(cur_file)
  /\ \E try \in {cur_try} :
     /\ try.exc # "none"
     /\ is_caught(try.exc)
     /\ visited' = Append(visited, [file |-> cur, outcome |-> "error", exc |-> try.exc,
                                     target_file |-> try.target_file])
     /\ warnings' = warnings + try.warned
     /\ fs_dirs' = try.dirs
     /\ fs_files' = try.files
     /\ error_count' = error_count + 1
     /\ UNCHANGED << pc, success_count >>
     /\ unchanged_in_loop

\* the try body raises an exception the except clause does not name:
\* convert_structure ends with it
Raise ==
  /\ in_loop
  /\ is_video(cur_file)
  /\ \E try \in {cur_try} :
     /\ try.exc # "none"
     /\ ~is_caught(try.exc)
     /\ visited' = Append(visited, [file |-> cur, outcome |-> "raised", exc |-> try.exc,
                                     target_file |-> try.target_file])
     /\ warnings' = warnings + try.warned
     /\ fs_dirs' = try.dirs
     /\ fs_files' = try.files
     /\ pc' = "raised"
     /\ UNCHANGED << success_count, error_count >>
     /\ unchanged_in_loop

\* line 198
Return ==
  /\ pc = "walking"
  /\ Len(visited) = Len(walk)
  /\ pc' = "returned"
  /\ returns' = Append(returns, [tally |-> << success_count, error_count >>,
                                 dirs |-> fs_dirs, files |-> fs_files])
  /\ UNCHANGED << filename, details, warnings, gender_arg, gender_out, src_files,
                  dst_dir, fault, run, walk, visited, success_count, error_count,
                  fs_dirs, fs_files >>

\* The files under src_dir that a call finds and the first call did not.
found_new == {p \in DOMAIN fs_files : Len(p) > 1 /\ p[1] = src_dir} \ {src_files[i] : i \in 1..Len(src_files)}

top_files == SelectSeq(src_files, in_top)
sub_files == SelectSeq(src_files, LAMBDA p : ~in_top(p))

\* The second call, lines 169-171: the directories are listed as before,
\* and a directory the first call made under src_dir is walked before or
\* after src/videos.
CallAgain ==
  /\ pc = "returned"
  /\ run = 1
  /\ run' = 2
  /\ pc' = "walking"
  /\ \E o \in Orders(found_new) :
       walk' \in {top_files \o o \o sub_files, top_files \o sub_files \o o}
  /\ visited' = << >>
  /\ success_count' = 0
  /\ error_count' = 0
  /\ UNCHANGED << filename, details, warnings, gender_arg, gender_out, src_files,
                  dst_dir, fault, fs_dirs, fs_files, returns >>

Next == Skip \/ Copy \/ Caught \/ Raise \/ Return \/ CallAgain

Spec == Init /\ [][Next]_vars


(***************************************************************************)
(* The properties of the decoder, checked under SpecDecode.                *)
(***************************************************************************)

\* The number of fields of a name: one more than the "_" before its last ".".
FieldCount(name) ==
  LET dots == {i \in 1..Len(name) : name[i] = "."}
      stop == IF dots = {} THEN Len(name) + 1
              ELSE CHOOSE i \in dots : \A j \in dots : j <= i
  IN  Cardinality({i \in 1..(stop - 1) : name[i] = "_"}) + 1

\* The value a table gives for one of its keys.
ValueOf(d, key) == d[CHOOSE i \in 1..Len(d) : d[i][1] = key][2]

StartsWith(s, prefix) == Len(prefix) <= Len(s) /\ SubSeq(s, 1, Len(prefix)) = prefix

\* Nothing, or a "." and the text after it, which has no ".".
IsExtension(e) == e = << >> \/ (e[1] = "." /\ \A i \in 2..Len(e) : e[i] # ".")

Decoded == pc \in {"parsed", "looked"}

C3_FallbackRecord ==
  [speaker       |-> <<"u","n","k","n","o","w","n">>,
   speaker_name  |-> <<"U","n","k","n","o","w","n"," ","S","p","e","a","k","e","r">>,
   gender        |-> <<"U","n","k","n","o","w","n">>,
   language      |-> <<"u","n","k","n","o","w","n">>,
   language_full |-> <<"U","n","k","n","o","w","n"," ","L","a","n","g","u","a","g","e">>,
   emotion       |-> <<"u","n","k","n","o","w","n">>,
   emotion_full  |-> <<"U","n","k","n","o","w","n"," ","E","m","o","t","i","o","n">>,
   detail        |-> <<"u","n","k","n","o","w","n">>,
   sentence      |-> <<"U","n","k","n","o","w","n"," ","s","e","n","t","e","n","c","e">>]

\* C3: a filename whose base name does not have exactly four "_"-separated
\* fields is decoded, without an exception, to the fallback record with
\* exactly one warning; a filename with exactly four fields gives no warning.
C3_MalformedFallsBack ==
  Decoded =>
    /\ Len(details) = 1
    /\ IF FieldCount(filename) # 4
       THEN details[1] = C3_FallbackRecord /\ warnings = 1
       ELSE warnings = 0

C3_Witness ==
  /\ pc = "parsed"
  /\ FieldCount(filename) = 5
  /\ details = << C3_FallbackRecord >>
  /\ warnings = 1

\* C4: for a filename S_L_E_D followed by nothing or by one extension, with
\* S, L, E and D keys of the speaker, language, emotion and sentence tables,
\* the record has the raw codes S, L, E, D and the values the tables give
\* for them as its display fields.
C4_RecognizedCodesResolve ==
  Decoded =>
    \A S \in keys(SPEAKER_NAME_DICT) : StartsWith(filename, S \o <<"_">>) =>
    \A L \in keys(LANGUAGE_DICT) : StartsWith(filename, S \o <<"_">> \o L \o <<"_">>) =>
    \A E \in keys(EMOTION_DICT) : StartsWith(filename, S \o <<"_">> \o L \o <<"_">> \o E \o <<"_">>) =>
    \A D \in keys(SENTENCE_DICT) :
      LET stem == S \o <<"_">> \o L \o <<"_">> \o E \o <<"_">> \o D
      IN  (StartsWith(filename, stem)
           /\ IsExtension(SubSeq(filename, Len(stem) + 1, Len(filename)))) =>
            /\ details[1].speaker = S
            /\ details[1].language = L
            /\ details[1].emotion = E
            /\ details[1].detail = D
            /\ details[1].speaker_name = ValueOf(SPEAKER_NAME_DICT, S)
            /\ details[1].language_full = ValueOf(LANGUAGE_DICT, L)
            /\ details[1].emotion_full = ValueOf(EMOTION_DICT, E)
            /\ details[1].sentence = ValueOf(SENTENCE_DICT, D)

C4_Witness ==
  /\ pc = "parsed"
  /\ filename = <<"A","1","_","E","N","_","H","_","S","1","8",".","m","p","4">>
  /\ details[1].detail = <<"S","1","8">>
  /\ details[1].sentence = <<"W","e","l","l",","," ","c","a","n"," ","y","o","u"," ","h","e","l","p"," ","m","e","?">>
  /\ details[1].speaker_name = <<"S","p","e","a","k","e","r"," ","O","n","e">>

\* C5: in a four-field filename a code that is not a key of its table is
\* itself the display field, the other display fields are the values their
\* tables give, the raw codes are the trimmed fields, and nothing is raised.
C5_UnknownCodePassesThrough ==
  (Decoded /\ FieldCount(filename) = 4) =>
    LET code(p) == strip(filename_parts(filename)[p])
        raw     == << details[1].speaker, details[1].language,
                      details[1].emotion, details[1].detail >>
        shown   == << details[1].speaker_name, details[1].language_full,
                      details[1].emotion_full, details[1].sentence >>
    IN  /\ Len(details) = 1
        /\ \A p \in 1..4 :
             /\ raw[p] = code(p)
             /\ shown[p] = IF code(p) \in keys(Tables[p])
                           THEN ValueOf(Tables[p], code(p)) ELSE code(p)

C5_Witness ==
  /\ pc = "parsed"
  /\ filename = <<"Z","9","9","_","E","N","_","H","_","S","1",".","m","p","4">>
  /\ details[1].speaker_name = <<"Z","9","9">>
  /\ details[1].language_full = <<"E","n","g","l","i","s","h">>
  /\ details[1].sentence = <<"C","a","n","'","t"," ","y","o","u"," ","h","e","a","r"," ","m","y"," ","v","o","i","c","e","?">>

\* C6: get_gender returns the label of the group that lists the speaker
\* code ("A3" gives "F"), and raises ValueError, returning nothing, for a
\* code no group lists ("Z1").
C6_StrictGenderLookup ==
  pc = "looked" =>
    /\ \A g \in 1..Len(Gender) : member(Gender[g][2], gender_arg) =>
         gender_out[1] = [exc |-> "none", value |-> Gender[g][1]]
    /\ (\A g \in 1..Len(Gender) : ~member(Gender[g][2], gender_arg)) =>
         gender_out[1] = [exc |-> "ValueError", value |-> << >>]
    /\ gender_arg = <<"A","3">> => gender_out[1] = [exc |-> "none", value |-> <<"F">>]
    /\ gender_arg = <<"Z","1">> => gender_out[1].exc = "ValueError"

C6_Witness ==
  /\ pc = "looked"
  /\ gender_arg = <<"Z","1">>
  /\ gender_out = << [exc |-> "ValueError", value |-> << >>] >>

\* C10: no speaker code is in two gender groups; for a four-field filename
\* the decoded gender is what get_gender returns for the decoded speaker
\* code, and is "Unknown" exactly when get_gender raises; a code of the
\* speaker table decodes to "M" or "F".
C10_GenderAgreesWithStrictLookup ==
  /\ \A g, h \in 1..Len(Gender) : \A i \in 1..Len(Gender[g][2]), j \in 1..Len(Gender[h][2]) :
       Gender[g][2][i] = Gender[h][2][j] => (g = h /\ i = j)
  /\ (pc = "looked" /\ FieldCount(filename) = 4 /\ gender_arg = details[1].speaker) =>
       /\ gender_out[1].exc = "none" => details[1].gender = gender_out[1].value
       /\ gender_out[1].exc # "none" <=> details[1].gender = <<"U","n","k","n","o","w","n">>
  /\ (Decoded /\ FieldCount(filename) = 4 /\ details[1].speaker \in keys(SPEAKER_NAME_DICT)) =>
       details[1].gender \in {<<"M">>, <<"F">>}

C10_Witness ==
  /\ pc = "looked"
  /\ filename = <<" ","A","3","\t","_","E","N","_","H","_","S","1",".","m","p","4">>
  /\ gender_arg = <<"A","3">>
  /\ details[1].gender = <<"F">>
  /\ gender_out[1].value = <<"F">>

(***************************************************************************)
(* The properties of convert_structure, checked under Spec.                *)
(***************************************************************************)

NameOf(p) == p[Len(p)]

\* The name ends, whatever the case of its letters, in .mp4, .avi or .mov.
Qualifies(name) ==
  /\ Len(name) >= 4
  /\ lower(SubSeq(name, Len(name) - 3, Len(name))) \in {<<".","m","p","4">>, <<".","a","v","i">>, <<".","m","o","v">>}

Took(outcome) == {i \in 1..Len(visited) : visited[i].outcome = outcome}

SourceFiles == {src_files[i] : i \in 1..Len(src_files)}

UnderSource(files) == {p \in DOMAIN files : Len(p) > 1 /\ p[1] = src_dir}

\* The files this call found under src_dir when it began.
FoundByCall == IF run = 1 THEN SourceFiles ELSE UnderSource(returns[1].files)

\* The files the calls have made.
Copies == DOMAIN fs_files \ SourceFiles

DstAccepted == ~contains(dst_dir, "NUL")

\* C1: a failure of the try body for one file is caught there, counted in
\* error_count and in nothing else, and the walk goes on to the next file.
C1_FailureIsCounted ==
  /\ pc # "raised"
  /\ error_count = Cardinality({i \in 1..Len(visited) : visited[i].exc # "none"})
  /\ success_count = Cardinality({i \in 1..Len(visited) : visited[i].outcome = "copied"})

\* C2: a file copied is at dst/language/gender/emotion/detail/filename, with
\* the codes the decoder returns for its name: four directories below dst.
C2_FourLevelsBelowDst ==
  \A i \in Took("copied") :
    LET file  == NameOf(visited[i].file)
        d     == parse_video_filename(file).ret
        place == location(dst_dir) \o << d.language, d.gender, d.emotion, d.detail, file >>
    IN  /\ location(visited[i].target_file) = place
        /\ place \in DOMAIN fs_files

C9_DestinationsDiffer ==
  (pc = "returned" /\ run = 1) =>
    /\ \A i, j \in Took("copied") :
         i # j => location(visited[i].target_file) # location(visited[j].target_file)
    /\ Cardinality(Copies) = success_count

\* C9, amended: the copies of two source files are in different places
\* exactly when the files have different names, and after the first call
\* the files it made are as many as the different names of the files copied.
C9_NamesDecideDestinations ==
  (pc = "returned" /\ run = 1) =>
    /\ \A i, j \in Took("copied") :
         NameOf(visited[i].file) # NameOf(visited[j].file)
           <=> location(visited[i].target_file) # location(visited[j].target_file)
    /\ \A i \in Took("copied") : location(visited[i].target_file) \in Copies
    /\ Cardinality(Copies) = Cardinality({NameOf(visited[i].file) : i \in Took("copied")})

C9_Witness ==
  /\ pc = "returned"
  /\ run = 1
  /\ success_count = 2
  /\ Cardinality(Copies) = 1
  /\ NameOf(visited[1].file) = NameOf(visited[2].file)

====
